---- MODULE Spec2Model ----
(***************************************************************************)
(* Array types of the narrow columnar format: BooleanArray,                *)
(* FixedSizePrimitiveArray and NullArray, each in a non-nullable and a     *)
(* nullable variant.  The three array types (src/array/*.rs) are thin      *)
(* wrappers around a storage `self.0`, which is the plain storage when     *)
(* NULLABLE = false and Nullable { data, bitmap } when NULLABLE = true.    *)
(* Bitmap, Nullable and the buffers live outside the three source files    *)
(* and are modelled from the specification.                                *)
(***************************************************************************)
EXTENDS Naturals, Integers, Sequences, FiniteSets, TLC

VARIABLES
    pc,        \* "live": the array is owned; "consumed": it was moved into an owning iterator;
               \* "panicked": an extend call panicked
    ty,        \* element type: "bool" (BooleanArray), "u8" / "u16" / "u8x2" (FixedSizePrimitiveArray), "unit" (NullArray)
    nullable,  \* the NULLABLE const parameter of the array type
    endian,    \* byte order of the build target ("little" or "big")
    array,     \* the storage self.0
    pushed,    \* history: the items given to from_iter and to the extend calls so far, in order
    written,   \* history: a byte was written through a mutable buffer / bitmap borrow
    obs        \* the last operation and its result, [op, arg, val, n]

vars == <<pc, ty, nullable, endian, array, pushed, written, obs>>

\* ---------------------------------------------------------------- bounds
MaxLen == 3       \* longest array in Spec (all array kinds, all operations)
MaxBits == 10     \* longest array in SpecPack (boolean arrays across a byte boundary)
MaxChunk == 2     \* longest sequence given to one extend call
MaxRuns == 1      \* most Run items given to one NullArray

\* ---------------------------------------------------------------- values
None == <<>>
Some(x) == <<x>>

AllTypes == {"bool", "u8", "u16", "u8x2", "unit"}

Kind(t) == IF t = "bool" THEN "boolean" ELSE IF t = "unit" THEN "null" ELSE "fixed"

\* The element values the model draws inputs from.
Values(t) ==
    CASE t = "bool" -> BOOLEAN
      [] t = "u8"   -> {0, 1}
      [] t = "u16"  -> {0, 258}
      [] t = "u8x2" -> {<<1, 2>>, <<3, 4>>}
      [] t = "unit" -> {"()"}

\* T::default()
DefaultOf(t) ==
    CASE t = "bool" -> FALSE
      [] t = "u8"   -> 0
      [] t = "u16"  -> 0
      [] t = "u8x2" -> <<0, 0>>
      [] t = "unit" -> "()"

\* mem::size_of::<T>()
SizeOf(t) ==
    CASE t = "bool" -> 1
      [] t = "u8"   -> 1
      [] t = "u16"  -> 2
      [] t = "u8x2" -> 2
      [] t = "unit" -> 0

\* The items a caller can pass: T for a non-nullable array, Option<T> for a nullable one.
ItemsOf(t, n) == IF n THEN {None} \cup {Some(v) : v \in Values(t)} ELSE Values(t)

SeqsUpTo(S, k) == UNION {[1..m -> S] : m \in 0..k}

Min(a, b) == IF a < b THEN a ELSE b

Repeat(x, n) == [i \in 1..n |-> x]

\* ---------------------------------------------------------------- Bitmap
Pow2(p) == CASE p = 0 -> 1 [] p = 1 -> 2 [] p = 2 -> 4 [] p = 3 -> 8
             [] p = 4 -> 16 [] p = 5 -> 32 [] p = 6 -> 64 [] p = 7 -> 128

\* bit `pos` of `byte`, counted from the least-significant bit
BitAt(byte, pos) == (byte \div Pow2(pos)) % 2 = 1

\* the byte whose bit p is f[p], p in 0..7
ByteOf(f) ==
    LET B(p) == IF f[p] THEN Pow2(p) ELSE 0
    IN B(0) + B(1) + B(2) + B(3) + B(4) + B(5) + B(6) + B(7)

\* one byte from at most 8 bools, first bool in the least-significant bit
PackByte(s) == ByteOf([p \in 0..7 |-> p < Len(s) /\ s[p + 1]])

RECURSIVE BitPacked(_)
BitPacked(s) ==
    IF s = <<>> THEN <<>>
    ELSE LET n == Min(8, Len(s))
         IN <<PackByte(SubSeq(s, 1, n))>> \o BitPacked(SubSeq(s, n + 1, Len(s)))

\* Bitmap { buffer, bits } collected from a sequence of bool
Bitmap_from_iter(s) == [buffer |-> BitPacked(s), bits |-> Len(s)]

Bitmap_default == [buffer |-> <<>>, bits |-> 0]

Bitmap_len(bm) == bm.bits

\* bit i of the bitmap, unchecked
Bitmap_bit(bm, i) == BitAt(bm.buffer[(i \div 8) + 1], i % 8)

\* Bitmap::get: None when out of range
Bitmap_get(bm, i) == IF i < bm.bits THEN Some(Bitmap_bit(bm, i)) ELSE None

Bitmap_iter(bm) == [i \in 1..bm.bits |-> Bitmap_bit(bm, i - 1)]

\* Bitmap::extend.  The unused bits of the last byte are filled first, the
\* rest is bit-packed into new bytes.  Bits beyond the length are
\* unspecified: when one is already set (after a raw byte write), the
\* appended bit reads as pushed (sticky = FALSE) or keeps the set bit
\* (sticky = TRUE).
Bitmap_extend(bm, s, sticky) ==
    LET used  == bm.bits % 8
        nfill == IF used = 0 THEN 0 ELSE Min(8 - used, Len(s))
        nb    == Len(bm.buffer)
        last  == bm.buffer[nb]
        fill  == ByteOf([p \in 0..7 |->
                    IF p >= used /\ p - used < nfill
                    THEN s[p - used + 1] \/ (sticky /\ BitAt(last, p))
                    ELSE BitAt(last, p)])
        head  == IF nfill = 0 THEN bm.buffer
                 ELSE [bm.buffer EXCEPT ![nb] = fill]
    IN [buffer |-> head \o BitPacked(SubSeq(s, nfill + 1, Len(s))),
        bits   |-> bm.bits + Len(s)]

\* all bits set
Bitmap_all(bm) == \A i \in 0..(bm.bits - 1) : Bitmap_bit(bm, i)

\* ---------------------------------------------------------------- Buffer<T>
Buffer_from_iter(s) == s

Buffer_extend(buf, s) == buf \o s

Buffer_len(buf) == Len(buf)

Buffer_iter(buf) == buf

\* T::to_ne_bytes: the bytes of one element in memory order
NativeBytes(t, x) ==
    CASE t = "u8"   -> <<x>>
      [] t = "u8x2" -> x
      [] t = "u16"  -> IF endian = "little" THEN <<x % 256, x \div 256>>
                       ELSE <<x \div 256, x % 256>>

\* Buffer::as_bytes: the buffer's memory reinterpreted as bytes
RECURSIVE Buffer_as_bytes(_, _)
Buffer_as_bytes(t, buf) ==
    IF buf = <<>> THEN <<>>
    ELSE NativeBytes(t, Head(buf)) \o Buffer_as_bytes(t, Tail(buf))

\* ---------------------------------------------------------------- usize
\* A usize is kept as its residue modulo 2^64 nearest to zero: r >= 0
\* stands for r, and r < 0 stands for 2^64 + r.  Only values within a few
\* units of 0 or of 2^64 occur, so the wrapping sum of two of them is the
\* sum of their residues.

\* usize::MAX = 2^64 - 1
UsizeMax == 0 - 1

\* a.wrapping_add(b)
UsizeWrappingAdd(a, b) == a + b

\* a.checked_add(b).is_none(): the sum of the two values reaches 2^64
UsizeAddOverflows(a, b) ==
    IF a >= 0 /\ b >= 0 THEN FALSE
    ELSE IF a < 0 /\ b < 0 THEN TRUE
    ELSE a + b >= 0

\* a <= b as usize
UsizeLe(a, b) == IF (a >= 0) = (b >= 0) THEN a <= b ELSE a >= 0

\* An item of an input sequence that stands for usize::MAX units in a row
\* (iter::repeat(()).take(usize::MAX), whose count() takes no time).
Run == "() x usize::MAX"

\* A produced run of 2^64 + r copies of the unit value, r < 0.
RunOf(r) == IF r = UsizeMax THEN Run ELSE "() x 2^64" \o ToString(r)

\* the number of Run items of a sequence of units
Runs(s) == Cardinality({i \in DOMAIN s : s[i] = Run})

\* iter.into_iter().count(): every item counts one and a Run counts
\* usize::MAX; without overflow checks the count wraps.
Count(s) == Len(s) - 2 * Runs(s)

\* ---------------------------------------------------------------- Nulls<T>
\* Nulls { len, _ty }: only the count is stored.
Nulls_from_iter(s) == [len |-> Count(s)]

\* self.len += count, in a build without overflow checks (release): the
\* sum wraps modulo 2^64.
Nulls_extend(nulls, s) == [len |-> UsizeWrappingAdd(nulls.len, Count(s))]

\* self.len += count, in a build with overflow checks (debug): when the
\* sum overflows the call panics and does not return.
Nulls_extend_panics(nulls, s) == UsizeAddOverflows(nulls.len, Count(s))

Nulls_len(nulls) == nulls.len

\* mutant: the run is one element short
Mut_Nulls_into_iter(t, nulls) ==
    IF nulls.len < 0 THEN <<RunOf(nulls.len - 1)>>
    ELSE Repeat(DefaultOf(t), nulls.len - 1)

\* iter::repeat(T::default()).take(self.len); a run of more than 2^63
\* elements is written as one RunOf item.
Nulls_into_iter(t, nulls) ==
    IF nulls.len < 0 THEN <<RunOf(nulls.len)>>
    ELSE Repeat(DefaultOf(t), nulls.len)

\* ---------------------------------------------------------------- plain storage
\* <_ as Validity<false>>::Storage: Bitmap for bool, Buffer<T> for the
\* fixed-size types, Nulls<T> for the unit types.
Data_default(t) ==
    CASE Kind(t) = "boolean" -> Bitmap_default
      [] Kind(t) = "fixed"   -> <<>>
      [] Kind(t) = "null"    -> [len |-> 0]

Data_from_iter(t, s) ==
    CASE Kind(t) = "boolean" -> Bitmap_from_iter(s)
      [] Kind(t) = "fixed"   -> Buffer_from_iter(s)
      [] Kind(t) = "null"    -> Nulls_from_iter(s)

Data_extend(t, d, s, sticky) ==
    CASE Kind(t) = "boolean" -> Bitmap_extend(d, s, sticky)
      [] Kind(t) = "fixed"   -> Buffer_extend(d, s)
      [] Kind(t) = "null"    -> Nulls_extend(d, s)

Data_len(t, d) ==
    CASE Kind(t) = "boolean" -> Bitmap_len(d)
      [] Kind(t) = "fixed"   -> Buffer_len(d)
      [] Kind(t) = "null"    -> Nulls_len(d)

Data_iter(t, d) ==
    CASE Kind(t) = "boolean" -> Bitmap_iter(d)
      [] Kind(t) = "fixed"   -> Buffer_iter(d)
      [] Kind(t) = "null"    -> Nulls_into_iter(t, d)

\* ---------------------------------------------------------------- Nullable
\* Nullable { data, bitmap }: <_ as Validity<true>>::Storage.

\* the value stored for an optional item: the value, or T::default() when absent
Stored(t, item) == IF item = None THEN DefaultOf(t) ELSE item[1]

Nullable_default(t) == [data |-> Data_default(t), bitmap |-> Bitmap_default]

Nullable_from_iter(t, items) ==
    [data   |-> Data_from_iter(t, [i \in 1..Len(items) |-> Stored(t, items[i])]),
     bitmap |-> Bitmap_from_iter([i \in 1..Len(items) |-> items[i] # None])]

Nullable_extend(t, st, items, sticky) ==
    [data   |-> Data_extend(t, st.data, [i \in 1..Len(items) |-> Stored(t, items[i])], sticky),
     bitmap |-> Bitmap_extend(st.bitmap, [i \in 1..Len(items) |-> items[i] # None], sticky)]

\* Nullable::wrap: a fresh bitmap of data.len() bits, all set
Nullable_wrap(t, d) ==
    [data |-> d, bitmap |-> Bitmap_from_iter(Repeat(TRUE, Data_len(t, d)))]

Nullable_len(t, st) == Data_len(t, st.data)

\* zip of the validity bits and the data: Some(value) where the bit is set
Nullable_iter(t, st) ==
    LET d == Data_iter(t, st.data)
        n == Min(Bitmap_len(st.bitmap), Len(d))
    IN [i \in 1..n |-> IF Bitmap_bit(st.bitmap, i - 1) THEN Some(d[i]) ELSE None]

\* BitmapRef / BitmapRefMut of Nullable: the validity bitmap
Nullable_bitmap_ref(st) == st.bitmap

\* ValidityBitmap, the provided methods over bitmap_ref()
is_valid(bm, i) == Bitmap_get(bm, i)

is_null(bm, i) == IF is_valid(bm, i) = None THEN None ELSE Some(~is_valid(bm, i)[1])

all_valid(bm) == Bitmap_all(bm)

\* ---------------------------------------------------------------- storage selection
\* <_ as Validity<NULLABLE>>::Storage<Buffer>
Storage_default(t, n) == IF n THEN Nullable_default(t) ELSE Data_default(t)

Storage_from_iter(t, n, items) ==
    IF n THEN Nullable_from_iter(t, items) ELSE Data_from_iter(t, items)

Storage_extend(t, n, st, items, sticky) ==
    IF n THEN Nullable_extend(t, st, items, sticky) ELSE Data_extend(t, st, items, sticky)

Storage_len(t, n, st) == IF n THEN Nullable_len(t, st) ELSE Data_len(t, st)

Storage_iter(t, n, st) == IF n THEN Nullable_iter(t, st) ELSE Data_iter(t, st)

\* BufferRef<u8> of the storage: the packed bytes of the (data) bitmap
Storage_buffer_ref(n, st) == IF n THEN st.data.buffer ELSE st.buffer

\* ---------------------------------------------------------------- BooleanArray
BooleanArray_default(n) == Storage_default("bool", n)

\* mutant: the items are collected in reverse order
Mut_BooleanArray_from_iter(n, items) ==
    Storage_from_iter("bool", n, [i \in 1..Len(items) |-> items[Len(items) + 1 - i]])

BooleanArray_from_iter(n, items) == Storage_from_iter("bool", n, items)

\* mutant: the first item of every extend call is lost
Mut_BooleanArray_extend(n, st, items, sticky) ==
    Storage_extend("bool", n, st, SubSeq(items, 2, Len(items)), sticky)

BooleanArray_extend(n, st, items, sticky) == Storage_extend("bool", n, st, items, sticky)

\* mutant: the storage is paired with an empty bitmap instead of being wrapped
Mut_BooleanArray_from(st) == [data |-> st, bitmap |-> Bitmap_default]

\* From<BooleanArray<false>> for BooleanArray<true>
BooleanArray_from(st) == Nullable_wrap("bool", st)

BooleanArray_len(n, st) == Storage_len("bool", n, st)

\* mutant: the production stops one element early
Mut_BooleanArray_into_iter(n, st) ==
    LET s == Storage_iter("bool", n, st) IN SubSeq(s, 1, Len(s) - 1)

BooleanArray_into_iter(n, st) == Storage_iter("bool", n, st)

BooleanArray_buffer_ref(n, st) == Storage_buffer_ref(n, st)

\* mutant: the value bitmap is handed out as the validity bitmap
Mut_BooleanArray_bitmap_ref(st) == st.data

BooleanArray_bitmap_ref(st) == Nullable_bitmap_ref(st)

\* buffer_ref_mut()[j] = b
BooleanArray_buffer_write(n, st, j, b) ==
    IF n THEN [st EXCEPT !.data.buffer[j + 1] = b]
    ELSE [st EXCEPT !.buffer[j + 1] = b]

\* ---------------------------------------------------------------- FixedSizePrimitiveArray
FixedSizePrimitiveArray_default(t, n) == Storage_default(t, n)

\* mutant: absent items are skipped instead of stored as default + invalid
Mut_FixedSizePrimitiveArray_from_iter(t, n, items) ==
    IF n THEN Storage_from_iter(t, n, SelectSeq(items, LAMBDA x : x # None))
    ELSE Storage_from_iter(t, n, items)

FixedSizePrimitiveArray_from_iter(t, n, items) == Storage_from_iter(t, n, items)

FixedSizePrimitiveArray_extend(t, n, st, items, sticky) ==
    Storage_extend(t, n, st, items, sticky)

\* mutant: the fresh validity bitmap is zeroed instead of all set
Mut_FixedSizePrimitiveArray_from(t, st) ==
    [data |-> st, bitmap |-> Bitmap_from_iter(Repeat(FALSE, Data_len(t, st)))]

\* From<FixedSizePrimitiveArray<T, false>> for FixedSizePrimitiveArray<T, true>
FixedSizePrimitiveArray_from(t, st) == Nullable_wrap(t, st)

FixedSizePrimitiveArray_len(t, n, st) == Storage_len(t, n, st)

\* mutant: a slot holding T::default() is taken for null, the bitmap is not read
Mut_FixedSizePrimitiveArray_into_iter(t, n, st) ==
    IF n THEN [i \in 1..Len(st.data) |->
                 IF st.data[i] = DefaultOf(t) THEN None ELSE Some(st.data[i])]
    ELSE Storage_iter(t, n, st)

FixedSizePrimitiveArray_into_iter(t, n, st) == Storage_iter(t, n, st)

FixedSizePrimitiveArray_bitmap_ref(st) == Nullable_bitmap_ref(st)

\* mutant: the byte view is as long as the element count, not count * size
Mut_FixedSizePrimitiveArray_as_bytes(t, n, st) ==
    LET buf == IF n THEN st.data ELSE st
    IN SubSeq(Buffer_as_bytes(t, buf), 1, Len(buf))

\* the pub field self.0 as bytes: array.0.as_bytes(), array.0.buffer_ref().as_bytes()
FixedSizePrimitiveArray_as_bytes(t, n, st) ==
    Buffer_as_bytes(t, IF n THEN st.data ELSE st)

\* ---------------------------------------------------------------- NullArray
NullArray_default(t, n) == Storage_default(t, n)

NullArray_from_iter(t, n, items) == Storage_from_iter(t, n, items)

NullArray_extend(t, n, st, items, sticky) == Storage_extend(t, n, st, items, sticky)

\* the extend call panics: the count of the Nulls overflows in a build
\* with overflow checks
NullArray_extend_panics(t, n, st, items) ==
    IF n THEN Nulls_extend_panics(st.data, [i \in 1..Len(items) |-> Stored(t, items[i])])
    ELSE Nulls_extend_panics(st, items)

\* From<NullArray<T, false>> for NullArray<T, true>
NullArray_from(t, st) == Nullable_wrap(t, st)

NullArray_len(t, n, st) == Storage_len(t, n, st)

NullArray_into_iter(t, n, st) == Storage_iter(t, n, st)

NullArray_bitmap_ref(st) == Nullable_bitmap_ref(st)

\* ---------------------------------------------------------------- the array under test
Array_default(t, n) ==
    CASE Kind(t) = "boolean" -> BooleanArray_default(n)
      [] Kind(t) = "fixed"   -> FixedSizePrimitiveArray_default(t, n)
      [] Kind(t) = "null"    -> NullArray_default(t, n)

Array_from_iter(t, n, items) ==
    CASE Kind(t) = "boolean" -> BooleanArray_from_iter(n, items)
      [] Kind(t) = "fixed"   -> FixedSizePrimitiveArray_from_iter(t, n, items)
      [] Kind(t) = "null"    -> NullArray_from_iter(t, n, items)

Array_extend(t, n, st, items, sticky) ==
    CASE Kind(t) = "boolean" -> BooleanArray_extend(n, st, items, sticky)
      [] Kind(t) = "fixed"   -> FixedSizePrimitiveArray_extend(t, n, st, items, sticky)
      [] Kind(t) = "null"    -> NullArray_extend(t, n, st, items, sticky)

Array_extend_panics(t, n, st, items) ==
    Kind(t) = "null" /\ NullArray_extend_panics(t, n, st, items)

Array_from(t, st) ==
    CASE Kind(t) = "boolean" -> BooleanArray_from(st)
      [] Kind(t) = "fixed"   -> FixedSizePrimitiveArray_from(t, st)
      [] Kind(t) = "null"    -> NullArray_from(t, st)

Array_len(t, n, st) ==
    CASE Kind(t) = "boolean" -> BooleanArray_len(n, st)
      [] Kind(t) = "fixed"   -> FixedSizePrimitiveArray_len(t, n, st)
      [] Kind(t) = "null"    -> NullArray_len(t, n, st)

Array_into_iter(t, n, st) ==
    CASE Kind(t) = "boolean" -> BooleanArray_into_iter(n, st)
      [] Kind(t) = "fixed"   -> FixedSizePrimitiveArray_into_iter(t, n, st)
      [] Kind(t) = "null"    -> NullArray_into_iter(t, n, st)

Array_bitmap_ref(t, st) ==
    CASE Kind(t) = "boolean" -> BooleanArray_bitmap_ref(st)
      [] Kind(t) = "fixed"   -> FixedSizePrimitiveArray_bitmap_ref(st)
      [] Kind(t) = "null"    -> NullArray_bitmap_ref(st)

\* bitmap_ref_mut().buffer_ref_mut().as_mut_slice()[j] = b
Array_bitmap_write(st, j, b) == [st EXCEPT !.bitmap.buffer[j + 1] = b]

\* the current array
CurLen == Array_len(ty, nullable, array)

CurIter == Array_into_iter(ty, nullable, array)

\* the validity bitmap of the current (nullable) array
CurBitmap == Array_bitmap_ref(ty, array)

\* the bytes a test writes through a mutable borrow
WriteBytes == {13, 255}

NoObs == [op |-> "none", arg |-> 0, val |-> <<>>, n |-> 0]

Lift(s) == [i \in 1..Len(s) |-> Some(s[i])]

\* The sequences a caller can pass to from_iter or extend: up to k items,
\* or, for a non-nullable NullArray, one Run.
InputsOf(t, n, k) ==
    SeqsUpTo(ItemsOf(t, n), k) \cup (IF t = "unit" /\ ~n THEN {<<Run>>} ELSE {})

\* the number of Run items given so far
RunsPushed ==
    IF ty # "unit" THEN 0
    ELSE IF nullable THEN Runs([i \in 1..Len(pushed) |-> Stored(ty, pushed[i])])
    ELSE Runs(pushed)

\* The count of the NullArray wrapped before it was promoted: the array
\* does not hold the items that were given to it.
PromotedWrapped == nullable /\ RunsPushed > 0

\* ---------------------------------------------------------------- construction
\* Default::default() or from_iter(items) of an array type.  The byte order
\* of the target is observable only through the multi-byte integers.
InitWith(types, nulls, cap) ==
    /\ pc = "live"
    /\ ty \in types
    /\ endian \in (IF ty = "u16" THEN {"little", "big"} ELSE {"little"})
    /\ nullable \in nulls
    /\ \/ /\ pushed = <<>>
          /\ array = Array_default(ty, nullable)
       \/ /\ pushed \in InputsOf(ty, nullable, cap)
          /\ array = Array_from_iter(ty, nullable, pushed)
    /\ written = FALSE
    /\ obs = NoObs

Init == InitWith(AllTypes, BOOLEAN, MaxLen)

InitPack == InitWith({"bool"}, {FALSE}, MaxBits)

\* ---------------------------------------------------------------- operations
\* array.extend(items).  When the count of a NullArray overflows, a build
\* with overflow checks panics (the call does not return and the array is
\* left as it was) and a build without them stores the wrapped count.
Extend(cap) ==
    /\ pc = "live"
    /\ \E items \in InputsOf(ty, nullable, MaxChunk), sticky \in BOOLEAN :
          /\ IF ty = "unit" /\ ~nullable /\ items = <<Run>> THEN RunsPushed < MaxRuns
             ELSE CurLen + Len(items) <= cap
          /\ \/ /\ Array_extend_panics(ty, nullable, array, items)
                /\ pc' = "panicked"
                /\ obs' = [op |-> "panic", arg |-> Len(items), val |-> <<>>, n |-> 0]
                /\ UNCHANGED <<array, pushed>>
             \/ /\ pc' = pc
                /\ array' = Array_extend(ty, nullable, array, items, sticky)
                /\ pushed' = pushed \o items
                /\ obs' = [op |-> "extend", arg |-> Len(items), val |-> <<>>, n |-> 0]
    /\ UNCHANGED <<ty, nullable, endian, written>>

\* let nullable: Array<true> = array.into().  A bitmap of more than 2^63
\* bits cannot be allocated: the promotion of such an array does not return.
Promote ==
    /\ pc = "live"
    /\ ~nullable
    /\ CurLen >= 0
    /\ nullable' = TRUE
    /\ array' = Array_from(ty, array)
    /\ pushed' = Lift(pushed)
    /\ obs' = [op |-> "from", arg |-> 0, val |-> <<>>, n |-> 0]
    /\ UNCHANGED <<pc, ty, endian, written>>

\* array.len()
LenQuery ==
    /\ pc = "live"
    /\ obs' = [op |-> "len", arg |-> 0, val |-> CurLen, n |-> 0]
    /\ UNCHANGED <<pc, ty, nullable, endian, array, pushed, written>>

\* array.is_valid(i)
IsValid ==
    /\ pc = "live"
    /\ nullable
    /\ \E i \in 0..(CurLen + 1) :
          obs' = [op |-> "is_valid", arg |-> i, val |-> is_valid(CurBitmap, i), n |-> 0]
    /\ UNCHANGED <<pc, ty, nullable, endian, array, pushed, written>>

\* array.is_null(i)
IsNull ==
    /\ pc = "live"
    /\ nullable
    /\ \E i \in 0..(CurLen + 1) :
          obs' = [op |-> "is_null", arg |-> i, val |-> is_null(CurBitmap, i), n |-> 0]
    /\ UNCHANGED <<pc, ty, nullable, endian, array, pushed, written>>

\* array.all_valid()
AllValid ==
    /\ pc = "live"
    /\ nullable
    /\ obs' = [op |-> "all_valid", arg |-> 0, val |-> all_valid(CurBitmap), n |-> 0]
    /\ UNCHANGED <<pc, ty, nullable, endian, array, pushed, written>>

\* (&array).into_iter().collect::<Vec<_>>(): BooleanArray and
\* FixedSizePrimitiveArray implement IntoIterator for &Self.  n counts the
\* productions made in a row on the same array (up to 2).
IterRef ==
    /\ pc = "live"
    /\ Kind(ty) \in {"boolean", "fixed"}
    /\ obs' = [op |-> "iter", arg |-> 0, val |-> CurIter,
               n |-> IF obs.op = "iter" THEN 2 ELSE 1]
    /\ UNCHANGED <<pc, ty, nullable, endian, array, pushed, written>>

\* array.into_iter().collect::<Vec<_>>(): the array is moved
IntoIter ==
    /\ pc = "live"
    /\ pc' = "consumed"
    /\ obs' = [op |-> "into_iter", arg |-> 0, val |-> CurIter, n |-> 0]
    /\ UNCHANGED <<ty, nullable, endian, array, pushed, written>>

\* array.buffer_ref().as_ref() of a BooleanArray
BufferRef ==
    /\ pc = "live"
    /\ Kind(ty) = "boolean"
    /\ obs' = [op |-> "buffer_ref", arg |-> 0,
               val |-> BooleanArray_buffer_ref(nullable, array), n |-> 0]
    /\ UNCHANGED <<pc, ty, nullable, endian, array, pushed, written>>

\* the raw byte view of a FixedSizePrimitiveArray
AsBytes ==
    /\ pc = "live"
    /\ Kind(ty) = "fixed"
    /\ obs' = [op |-> "as_bytes", arg |-> 0,
               val |-> FixedSizePrimitiveArray_as_bytes(ty, nullable, array), n |-> 0]
    /\ UNCHANGED <<pc, ty, nullable, endian, array, pushed, written>>

\* array.buffer_ref_mut()[j] = b on a BooleanArray
BufferWrite ==
    /\ pc = "live"
    /\ Kind(ty) = "boolean"
    /\ \E j \in 0..(Len(BooleanArray_buffer_ref(nullable, array)) - 1), b \in WriteBytes :
          array' = BooleanArray_buffer_write(nullable, array, j, b)
    /\ written' = TRUE
    /\ obs' = [op |-> "write", arg |-> 0, val |-> <<>>, n |-> 0]
    /\ UNCHANGED <<pc, ty, nullable, endian, pushed>>

\* array.bitmap_ref_mut().buffer_ref_mut().as_mut_slice()[j] = b
BitmapWrite ==
    /\ pc = "live"
    /\ nullable
    /\ \E j \in 0..(Len(CurBitmap.buffer) - 1), b \in WriteBytes :
          array' = Array_bitmap_write(array, j, b)
    /\ written' = TRUE
    /\ obs' = [op |-> "write", arg |-> 0, val |-> <<>>, n |-> 0]
    /\ UNCHANGED <<pc, ty, nullable, endian, pushed>>

Next ==
    \/ Extend(MaxLen)
    \/ Promote
    \/ LenQuery
    \/ IsValid
    \/ IsNull
    \/ AllValid
    \/ IterRef
    \/ IntoIter
    \/ BufferRef
    \/ AsBytes
    \/ BufferWrite
    \/ BitmapWrite

Spec == Init /\ [][Next]_vars

\* BooleanArray<false> long enough to span two bytes of the packed buffer.
NextPack ==
    \/ Extend(MaxBits)
    \/ LenQuery
    \/ IterRef
    \/ IntoIter
    \/ BufferRef

SpecPack == InitPack /\ [][NextPack]_vars

\* ================================================================ claims

\* C1: in a nullable array of any kind, however it was built (default,
\* from_iter of optional items, extend, promotion), the validity bitmap
\* holds exactly as many bits as the data holds elements, and both equal
\* len() (which is the number of items pushed, unless the array was
\* promoted from a NullArray whose count had wrapped).
C1_LengthLockStep ==
    nullable =>
        /\ Bitmap_len(CurBitmap) = Data_len(ty, array.data)
        /\ Data_len(ty, array.data) = CurLen
        /\ ~PromotedWrapped => CurLen = Len(pushed)

C1_Witness ==
    /\ nullable
    /\ ty = "bool"
    /\ obs.op = "extend"
    /\ obs.arg = 2
    /\ pushed = <<Some(TRUE), None, Some(FALSE)>>
    /\ Bitmap_len(CurBitmap) = 3

\* C2: a nullable FixedSizePrimitiveArray just collected from optional
\* items stores, at every index, the value with validity bit true for a
\* present item and T::default() with validity bit false for an absent one.
C2_FromIterOptional ==
    (Kind(ty) = "fixed" /\ nullable /\ obs.op = "none") =>
        /\ Len(array.data) = Len(pushed)
        /\ \A i \in 1..Len(pushed) :
              IF pushed[i] = None
              THEN /\ array.data[i] = DefaultOf(ty)
                   /\ Bitmap_get(array.bitmap, i - 1) = Some(FALSE)
              ELSE /\ array.data[i] = pushed[i][1]
                   /\ Bitmap_get(array.bitmap, i - 1) = Some(TRUE)

C2_Witness ==
    /\ ty = "u8"
    /\ nullable
    /\ obs.op = "none"
    /\ pushed = <<Some(1), None, Some(0)>>
    /\ array.data = <<1, 0, 0>>
    /\ Bitmap_iter(array.bitmap) = <<TRUE, FALSE, TRUE>>

\* C3: a non-nullable BooleanArray collected from a sequence of bool
\* produces exactly that sequence, in order, and has its length; the
\* borrowing production gives the same result each time it is repeated,
\* and the owning production gives it too.
C3_BoolRoundTrip ==
    (ty = "bool" /\ ~nullable /\ ~written) =>
        /\ CurLen = Len(pushed)
        /\ obs.op \in {"iter", "into_iter"} => obs.val = pushed
        /\ obs.op = "len" => obs.val = Len(pushed)

C3_Witness ==
    /\ ty = "bool"
    /\ ~nullable
    /\ obs.op = "iter"
    /\ obs.n = 2
    /\ Len(obs.val) = 10
    /\ obs.val[1]
    /\ ~obs.val[2]
    /\ ~obs.val[9]
    /\ obs.val[10]

\* C4: for every array kind, a nullable array collected from optional
\* items produces exactly those items: None where the item was absent, the
\* original value where it was present.
C4_NullableRoundTrip ==
    (nullable /\ ~written /\ ~PromotedWrapped /\ obs.op \in {"iter", "into_iter"})
        => obs.val = pushed

C4_Witness ==
    /\ ty = "unit"
    /\ nullable
    /\ obs.op = "into_iter"
    /\ obs.val = <<Some("()"), None, Some("()")>>
\* C5: promoting a non-nullable array of any kind and any contents keeps
\* its length and its data, gives it a validity bitmap of exactly that
\* many bits, all set, and makes it produce Some(x) for each element x in
\* order.
C5_Promotion ==
    [][(pc = "live" /\ ~nullable /\ nullable') =>
          LET L == Array_len(ty, FALSE, array)
              xs == Array_into_iter(ty, FALSE, array)
          IN /\ Array_len(ty', TRUE, array') = L
             /\ Bitmap_len(array'.bitmap) = L
             /\ \A i \in 0..(L - 1) : Bitmap_get(array'.bitmap, i) = Some(TRUE)
             /\ all_valid(Array_bitmap_ref(ty', array'))
             /\ array'.data = array
             /\ Array_into_iter(ty', TRUE, array') = [i \in 1..L |-> Some(xs[i])]
      ]_vars

C5_Witness ==
    /\ obs.op = "from"
    /\ ty = "u8x2"
    /\ nullable
    /\ array.data = <<<<3, 4>>, <<1, 2>>, <<3, 4>>>>
    /\ Bitmap_iter(array.bitmap) = <<TRUE, TRUE, TRUE>>

\* C6: on a nullable array of length L, is_valid(i) is Some(validity bit i)
\* for i < L and None for i >= L; is_null(i) is Some of the negation where
\* is_valid(i) is Some, and None where is_valid(i) is None.  The validity
\* bit of an item is set exactly when the item pushed was present (the
\* items pushed are those the array holds unless it was promoted from a
\* NullArray whose count had wrapped).
C6_ValidityQueries ==
    nullable =>
        /\ obs.op = "is_valid" =>
              IF obs.arg < CurLen
              THEN /\ obs.val = Some(Bitmap_bit(array.bitmap, obs.arg))
                   /\ (~written /\ ~PromotedWrapped) =>
                         obs.val = Some(pushed[obs.arg + 1] # None)
              ELSE obs.val = None
        /\ obs.op = "is_null" =>
              IF obs.arg < CurLen
              THEN /\ obs.val = Some(~Bitmap_bit(array.bitmap, obs.arg))
                   /\ (~written /\ ~PromotedWrapped) =>
                         obs.val = Some(pushed[obs.arg + 1] = None)
              ELSE obs.val = None

C6_Witness ==
    /\ nullable
    /\ ty = "bool"
    /\ pushed = <<Some(TRUE), None, Some(FALSE)>>
    /\ obs.op = "is_valid"
    /\ obs.arg = 3
    /\ obs.val = None

\* C7: a non-nullable BooleanArray built from a sequence of bool keeps
\* element i in bit (i mod 8), counted from the least-significant bit, of
\* byte (i div 8) of its packed buffer; [true, false, true, true] gives the
\* single byte 0b00001101 and length 4.
C7_BitPacking ==
    (ty = "bool" /\ ~nullable /\ ~written) =>
        LET buf == BooleanArray_buffer_ref(FALSE, array)
        IN /\ \A i \in 0..(Len(pushed) - 1) :
                 BitAt(buf[(i \div 8) + 1], i % 8) = pushed[i + 1]
           /\ pushed = <<TRUE, FALSE, TRUE, TRUE>> => (buf = <<13>> /\ CurLen = 4)
           /\ obs.op = "buffer_ref" => obs.val = buf

C7_Witness ==
    /\ ty = "bool"
    /\ ~nullable
    /\ obs.op = "buffer_ref"
    /\ pushed = <<TRUE, FALSE, TRUE, TRUE, FALSE, FALSE, FALSE, FALSE, FALSE, TRUE>>
    /\ obs.val = <<13, 2>>

\* C8: a non-nullable NullArray built from N items and extended by k1..km
\* items has len() = N + k1 + ... + km (the number of items given, every
\* Run counting usize::MAX), and its production is exactly len() copies of
\* T::default().
C8_NullArrayCount ==
    (ty = "unit" /\ ~nullable) =>
        LET R == RunsPushed
            U == Len(pushed) - R
        IN /\ IF R = 0 THEN CurLen = U
              ELSE R = 1 /\ U = 0 /\ CurLen = UsizeMax
           /\ CurLen >= 0 => CurIter = [i \in 1..CurLen |-> DefaultOf(ty)]
           /\ CurLen < 0 => CurIter = <<RunOf(CurLen)>>
           /\ obs.op = "len" => obs.val = CurLen
           /\ obs.op = "into_iter" => obs.val = CurIter

\* C9: the raw byte view of a non-nullable FixedSizePrimitiveArray of N
\* elements has N * size_of(T) bytes and is the concatenation, in element
\* order, of the elements' native bytes (the element slice itself for u8;
\* [1, 2, 3, 4] for the [u8; 2] elements [[1, 2], [3, 4]]).
C9_RawBytes ==
    (Kind(ty) = "fixed" /\ ~nullable /\ obs.op = "as_bytes") =>
        /\ Len(obs.val) = Len(pushed) * SizeOf(ty)
        /\ \A i \in 0..(Len(pushed) - 1) : \A j \in 0..(SizeOf(ty) - 1) :
              obs.val[i * SizeOf(ty) + j + 1] = NativeBytes(ty, pushed[i + 1])[j + 1]
        /\ ty = "u8" => obs.val = array
        /\ (ty = "u8x2" /\ pushed = <<<<1, 2>>, <<3, 4>>>>) => obs.val = <<1, 2, 3, 4>>

C9_Witness ==
    /\ ty = "u8x2"
    /\ ~nullable
    /\ obs.op = "as_bytes"
    /\ pushed = <<<<1, 2>>, <<3, 4>>>>
    /\ obs.val = <<1, 2, 3, 4>>

\* C10: along any operation that leaves the array alive (extend,
\* promotion, queries, borrowing production, raw byte writes) len() never
\* decreases, and an extend keeps index, value and validity of every
\* element that was present before it.
C10_AppendOnly ==
    [][(pc = "live" /\ pc' = "live") =>
          LET L  == Array_len(ty, nullable, array)
              d  == Data_iter(ty, IF nullable THEN array.data ELSE array)
              d2 == Data_iter(ty', IF nullable' THEN array'.data ELSE array')
          IN /\ UsizeLe(L, Array_len(ty', nullable', array'))
             /\ obs'.op = "extend" =>
                   /\ \A i \in 1..L : d2[i] = d[i]
                   /\ nullable =>
                         \A i \in 0..(L - 1) :
                            Bitmap_get(array'.bitmap, i) = Bitmap_get(array.bitmap, i)
                   /\ IF L >= 0
                      THEN SubSeq(Array_into_iter(ty', nullable', array'), 1, L)
                              = Array_into_iter(ty, nullable, array)
                      ELSE Array_len(ty', nullable', array') < 0
      ]_vars

\* C11: the production of a nullable array takes the nullness of element
\* i from validity bit i alone, never from the stored value: a byte
\* written into the validity bitmap through the mutable bitmap borrow
\* leaves the data and len() as they were, and the array then produces
\* None exactly where the written bits are clear and Some(stored value)
\* where they are set (promoted [1, 1, 1] with the byte 0b00001101
\* produces [Some(1), None, Some(1)]).
C11_NullnessFromBitmap ==
    [][(pc = "live" /\ nullable /\ obs'.op = "write"
            /\ array'.bitmap.buffer # array.bitmap.buffer) =>
          LET L  == Array_len(ty, nullable, array)
              d  == Data_iter(ty, array.data)
              vb == array'.bitmap.buffer
          IN /\ array'.data = array.data
             /\ Array_len(ty', nullable', array') = L
             /\ Array_into_iter(ty', nullable', array') =
                   [i \in 1..L |->
                       IF BitAt(vb[((i - 1) \div 8) + 1], (i - 1) % 8)
                       THEN Some(d[i]) ELSE None]
      ]_vars

C11_Witness ==
    /\ pc = "live"
    /\ ty = "u8"
    /\ nullable
    /\ obs.op = "write"
    /\ pushed = <<Some(1), Some(1), Some(1)>>
    /\ array.data = <<1, 1, 1>>
    /\ array.bitmap.buffer = <<13>>
    /\ FixedSizePrimitiveArray_into_iter(ty, TRUE, array) = <<Some(1), None, Some(1)>>
\* C12: for every array kind and both nullabilities, an array built from
\* a sequence and then extended (with no raw byte written) is the same
\* observable array as one built from the concatenation: same len(), same
\* produced sequence, same validity bits, same data buffer.  With nothing
\* pushed at construction this is a default array extended, which equals
\* the array built from the extension alone.
C12_ExtendIsConcat ==
    (~written /\ ~PromotedWrapped) =>
        LET ref == Array_from_iter(ty, nullable, pushed)
        IN /\ Array_len(ty, nullable, array) = Array_len(ty, nullable, ref)
           /\ RunsPushed = 0 => Array_len(ty, nullable, array) = Len(pushed)
           /\ Array_into_iter(ty, nullable, array) = Array_into_iter(ty, nullable, ref)
           /\ nullable =>
                 /\ Bitmap_iter(array.bitmap) = Bitmap_iter(ref.bitmap)
                 /\ array.bitmap.buffer = ref.bitmap.buffer
                 /\ array.data = ref.data
           /\ ~nullable => array = ref
           /\ pushed = <<>> => array = Array_default(ty, nullable)

C12_Witness ==
    /\ ~written
    /\ ty = "bool"
    /\ nullable
    /\ obs.op = "extend"
    /\ obs.arg = 2
    /\ pushed = <<Some(TRUE), None, Some(TRUE)>>
    /\ array.data.buffer = <<5>>
    /\ array.bitmap.buffer = <<5>>
    /\ array = BooleanArray_from_iter(TRUE, pushed)

====
